---- MODULE Spec2Model ----
(***************************************************************************)
(* devhub: the Column container's highlight border and the                 *)
(* Sidebar's press / scroll-to-focus logic (Sidebar.tsx).                  *)
(*                                                                         *)
(* Everything runs on one UI thread: a handler runs to completion, so one  *)
(* action is one handler, including the synchronous emitter.emit() and     *)
(* every subscriber it calls.  Time is a millisecond clock `now`; a        *)
(* setTimeout callback runs when the clock reaches its deadline.           *)
(***************************************************************************)
EXTENDS Integers, Sequences, FiniteSets, TLC

\* ---------------------------------------------------------------- bounds
NumIds == 4
MaxMounted == 2
MaxTimers == 2
MaxTicks == 3
MaxFaults == 1

\* ------------------------------------------------------ program constants
HighlightMs == 1000
DebounceMs == 1000
FixedSettingsMinColumns == 4

\* clock resolution: half the highlight window
TickMs == HighlightMs \div 2
MaxTime == MaxTicks * TickMs

\* ---------------------------------------------------------------- values
AllNames == <<"c1", "c2", "c3", "c4", "c5", "c6", "c7", "c8">>
Ids == {AllNames[i] : i \in 1..NumIds}
\* ids are interchangeable: the Column instances are those of the first ids
ViewIds == {AllNames[i] : i \in 1..MaxMounted}
\* an id that no Column instance has
ForeignId == AllNames[MaxMounted + 1]
Null == "null"
View == "view"
EmptyId == ""
NoModal == "undefined"
Sizenames == {"1-small", "2-medium", "3-large"}
AppViewModes == {"single-column", "multi-column"}
LookupParts == {"column", "columnIndex", "headerDetails"}
ViewPositionCenter == <<1, 2>>

VARIABLES
    \* Column instances
    mounted,                  \* ids with a mounted Column instance
    opacity,                  \* border opacity of each mounted Column's view
    timers,                   \* pending setTimeout callbacks
    destroyedViewWrites,      \* a setNativeProps call reached a destroyed view
    \* Sidebar props and context
    horizontal, sizename, appViewMode,
    \* store
    columnIds, currentOpenedModal, lookupFault,
    \* focus context
    focusedColumnId,
    \* Sidebar refs
    sidebarLastClickedAtRef,
    \* clock
    now,
    highlightedAt,            \* observation: when each mounted Column last
                              \* handled its own id with highlight: true
    \* observation of the most recent handler: its name and the calls it made
    lastOp, calls

vars == <<mounted, opacity, timers, destroyedViewWrites, highlightedAt,
          horizontal, sizename,
          appViewMode, columnIds, currentOpenedModal, lookupFault,
          focusedColumnId, sidebarLastClickedAtRef, now, lastOp, calls>>

columnVars == <<mounted, opacity, timers, destroyedViewWrites, highlightedAt>>
layoutVars == <<horizontal, sizename, appViewMode>>
storeVars == <<columnIds, currentOpenedModal, lookupFault>>

\* one call made by a handler
Call(op, arg) == [op |-> op, arg |-> arg]

\* ------------------------------------------------------------- Column.tsx

\* columnBorderRef.current of the instance for id c: the border view while the
\* instance is mounted, null otherwise.
columnBorderRef(c) == IF c \in mounted THEN View ELSE Null

\* ref.setNativeProps({ style: { opacity: v } }) on the view `ref` refers to.
setNativeProps(ref, old, v) ==
    IF ref = View
    THEN [opacity |-> v, destroyed |-> FALSE]
    ELSE [opacity |-> old, destroyed |-> TRUE]

NoEffect(c) == [opacity |-> opacity[c], destroyed |-> FALSE, timer |-> FALSE]

WithTimer(r, t) == [opacity |-> r.opacity, destroyed |-> r.destroyed, timer |-> t]

\* Variant: a non-matching event leaves the border as it is.
FocusOnColumnHandler_KeepsOthers(c, payload) ==
    LET ref == columnBorderRef(c) IN
    IF ref = Null THEN NoEffect(c)
    ELSE IF ~(payload.columnId # EmptyId /\ payload.columnId = c)
    THEN NoEffect(c)
    ELSE IF payload.highlight
    THEN WithTimer(setNativeProps(ref, opacity[c], 1), TRUE)
    ELSE NoEffect(c)

\* Variant: the payload's columnId is not compared with the instance's own.
FocusOnColumnHandler_AnyId(c, payload) ==
    LET ref == columnBorderRef(c) IN
    IF ref = Null THEN NoEffect(c)
    ELSE IF ~(payload.columnId # EmptyId)
    THEN WithTimer(setNativeProps(ref, opacity[c], 0), FALSE)
    ELSE IF payload.highlight
    THEN WithTimer(setNativeProps(ref, opacity[c], 1), TRUE)
    ELSE NoEffect(c)

\* Variant: highlighting schedules no revert.
FocusOnColumnHandler_NoRevert(c, payload) ==
    LET ref == columnBorderRef(c) IN
    IF ref = Null THEN NoEffect(c)
    ELSE IF ~(payload.columnId # EmptyId /\ payload.columnId = c)
    THEN WithTimer(setNativeProps(ref, opacity[c], 0), FALSE)
    ELSE IF payload.highlight
    THEN WithTimer(setNativeProps(ref, opacity[c], 1), FALSE)
    ELSE NoEffect(c)

\* The FOCUS_ON_COLUMN handler of the Column with id c, for one payload.
FocusOnColumnHandler(c, payload) ==
    LET ref == columnBorderRef(c) IN
    IF ref = Null THEN NoEffect(c)
    ELSE IF ~(payload.columnId # EmptyId /\ payload.columnId = c)
    THEN WithTimer(setNativeProps(ref, opacity[c], 0), FALSE)
    ELSE IF payload.highlight
    THEN WithTimer(setNativeProps(ref, opacity[c], 1), TRUE)
    ELSE NoEffect(c)

\* Variant: the callback does not look at the ref before using it.
RevertCallback_NoGuard(t) == setNativeProps(t.ref, opacity[t.columnId], 0)

\* The setTimeout callback: t.ref is what columnBorderRef.current of the
\* scheduling instance holds when the callback runs.
RevertCallback(t) ==
    IF t.ref = Null
    THEN [opacity |-> opacity[t.columnId], destroyed |-> FALSE]
    ELSE setNativeProps(t.ref, opacity[t.columnId], 0)

\* emitter.emit('FOCUS_ON_COLUMN', payload): every handler runs, in turn,
\* before emit returns.  Each handler touches its own instance only.
EmitFocusOnColumn(payload) ==
    LET r == [c \in Ids |-> FocusOnColumnHandler(c, payload)]
        scheduled == {[columnId |-> c, at |-> now + HighlightMs, ref |-> View] :
                         c \in {d \in Ids : r[d].timer}}
    IN  /\ Cardinality(timers \cup scheduled) <= MaxTimers
        /\ opacity' = [c \in Ids |-> r[c].opacity]
        /\ timers' = timers \cup scheduled
        /\ destroyedViewWrites' =
               (destroyedViewWrites \/ \E c \in Ids : r[c].destroyed)
        /\ mounted' = mounted
        /\ highlightedAt' = [c \in Ids |->
                                 IF /\ c \in mounted
                                    /\ payload.columnId = c
                                    /\ payload.highlight
                                 THEN now ELSE highlightedAt[c]]

EmitCall(payload, storeModal) ==
    [columnId |-> payload.columnId, highlight |-> payload.highlight,
     animated |-> payload.animated, storeModal |-> storeModal]

\* A Column instance is mounted: a fresh view, opacity 0 (its style).
Mount(c) ==
    /\ c \notin mounted
    /\ mounted' = mounted \cup {c}
    /\ opacity' = [opacity EXCEPT ![c] = 0]
    /\ highlightedAt' = [highlightedAt EXCEPT ![c] = 0]
    /\ lastOp' = "env"
    /\ calls' = <<>>
    /\ UNCHANGED <<timers, destroyedViewWrites, layoutVars, storeVars,
                   focusedColumnId, sidebarLastClickedAtRef, now>>

\* A Column instance is unmounted: React clears its refs; the callbacks it
\* scheduled stay scheduled.
Unmount(c) ==
    /\ c \in mounted
    /\ mounted' = mounted \ {c}
    /\ opacity' = [opacity EXCEPT ![c] = 0]
    /\ highlightedAt' = [highlightedAt EXCEPT ![c] = 0]
    /\ timers' = {IF t.columnId = c
                  THEN [columnId |-> c, at |-> t.at, ref |-> Null]
                  ELSE t : t \in timers}
    /\ lastOp' = "env"
    /\ calls' = <<>>
    /\ UNCHANGED <<destroyedViewWrites, layoutVars, storeVars,
                   focusedColumnId, sidebarLastClickedAtRef, now>>

\* FOCUS_ON_COLUMN emitted by any other part of the application.
Broadcast(columnId, highlight) ==
    LET payload == [columnId |-> columnId, highlight |-> highlight,
                    animated |-> FALSE]
    IN  /\ EmitFocusOnColumn(payload)
        /\ lastOp' = "emit"
        /\ calls' = <<Call("emit", EmitCall(payload, currentOpenedModal))>>
        /\ UNCHANGED <<layoutVars, storeVars, focusedColumnId,
                       sidebarLastClickedAtRef, now>>

\* A pending setTimeout callback runs at its deadline.
TimerFire(t) ==
    /\ t \in timers
    /\ t.at <= now
    /\ LET r == RevertCallback(t) IN
        /\ opacity' = [opacity EXCEPT ![t.columnId] = r.opacity]
        /\ destroyedViewWrites' = (destroyedViewWrites \/ r.destroyed)
    /\ timers' = timers \ {t}
    /\ lastOp' = "timeout"
    /\ calls' = <<Call("timeout", t.ref)>>
    /\ UNCHANGED <<mounted, highlightedAt, layoutVars, storeVars,
                   focusedColumnId, sidebarLastClickedAtRef, now>>

\* Time passes, but not beyond the deadline of a pending callback.
Tick ==
    /\ now + TickMs <= MaxTime
    /\ \A t \in timers : now < t.at
    /\ LET target == now + TickMs
           due == {t.at : t \in timers}
       IN now' = IF \E d \in due : d < target
                 THEN CHOOSE d \in due : \A e \in due : d <= e
                 ELSE target
    /\ lastOp' = "env"
    /\ calls' = <<>>
    /\ UNCHANGED <<columnVars, layoutVars, storeVars, focusedColumnId,
                   sidebarLastClickedAtRef>>


\* ------------------------------------------------------------ Sidebar.tsx

\* the elements of a sequence
Elems(seq) == {seq[i] : i \in DOMAIN seq}

\* Array.prototype.indexOf: the 0-based position, -1 when absent
IndexOf(seq, x) ==
    IF \E i \in DOMAIN seq : seq[i] = x
    THEN (CHOOSE i \in DOMAIN seq : seq[i] = x) - 1
    ELSE -1

\* sizename is compared as a string: its leading digit decides
SizeRank(s) == CASE s = "1-small" -> 1 [] s = "2-medium" -> 2 [] OTHER -> 3

small == sizename = "1-small"
large == SizeRank(sizename) >= SizeRank("3-large")

\* Variant: the fixed button needs more than four columns in horizontal mode.
showFixedSettingsButton_MoreThan ==
    ~horizontal \/ Len(columnIds) > FixedSettingsMinColumns

showFixedSettingsButton ==
    ~horizontal \/ Len(columnIds) >= FixedSettingsMinColumns

\* Variant: an open modal does not switch the item highlight off.
highlightFocusedColumn_IgnoresModal ==
    appViewMode = "single-column" \/ small

highlightFocusedColumn ==
    (appViewMode = "single-column" \/ small) /\ currentOpenedModal = NoModal

\* the FlatList is part of every render of the mounted Sidebar
flatListRef == View

\* store actions
closeAllModals == NoModal
replaceModal(name) == name

\* useColumn(columnId): the column, its index in the list and its header
\* details, each of which may be missing.
useColumn(columnId) ==
    [column |-> lookupFault[columnId] # "column",
     columnIndex |-> IF lookupFault[columnId] = "columnIndex"
                     THEN -1 ELSE IndexOf(columnIds, columnId),
     headerDetails |-> lookupFault[columnId] # "headerDetails"]

NullItem == [rendered |-> FALSE, columnId |-> EmptyId, highlight |-> FALSE]

\* Variant: the position of the column is not checked.
SidebarColumnItem_NoIndexCheck(columnId, highlight) ==
    LET r == useColumn(columnId) IN
    IF ~(r.column /\ r.headerDetails) THEN NullItem
    ELSE [rendered |-> TRUE, columnId |-> columnId, highlight |-> highlight]

\* SidebarColumnItem: null for an unresolved lookup, a pressable
\* ColumnHeaderItem otherwise.
SidebarColumnItem(columnId, highlight) ==
    LET r == useColumn(columnId) IN
    IF ~(r.column /\ r.columnIndex >= 0 /\ r.headerDetails) THEN NullItem
    ELSE [rendered |-> TRUE, columnId |-> columnId, highlight |-> highlight]

\* The FlatList's renderItem
renderItem(columnId) ==
    SidebarColumnItem(columnId,
                      highlightFocusedColumn /\ columnId = focusedColumnId)

\* Variant: the press asks for the highlight on every layout.
ItemOnPressCalls_AlwaysHighlight(columnId) ==
    LET storeModal == IF currentOpenedModal # NoModal
                      THEN closeAllModals ELSE currentOpenedModal
        payload == [columnId |-> columnId, highlight |-> TRUE,
                    animated |-> (~small \/ currentOpenedModal = NoModal)]
    IN  <<Call("onSidebarItemPress", <<columnId>>)>>
        \o (IF currentOpenedModal # NoModal
            THEN <<Call("closeAllModals", <<>>)>> ELSE <<>>)
        \o <<Call("emit", EmitCall(payload, storeModal))>>

\* Variant: the press emits before it closes the modal.
ItemOnPressCalls_EmitFirst(columnId) ==
    LET payload == [columnId |-> columnId, highlight |-> ~small,
                    animated |-> (~small \/ currentOpenedModal = NoModal)]
    IN  <<Call("onSidebarItemPress", <<columnId>>)>>
        \o <<Call("emit", EmitCall(payload, currentOpenedModal))>>
        \o (IF currentOpenedModal # NoModal
            THEN <<Call("closeAllModals", <<>>)>> ELSE <<>>)

\* The calls of a SidebarColumnItem's onPress, in order.  The modal the store
\* holds when emit is called is recorded with the emit.
ItemOnPressCalls(columnId) ==
    LET storeModal == IF currentOpenedModal # NoModal
                      THEN closeAllModals ELSE currentOpenedModal
        payload == [columnId |-> columnId, highlight |-> ~small,
                    animated |-> (~small \/ currentOpenedModal = NoModal)]
    IN  <<Call("onSidebarItemPress", <<columnId>>)>>
        \o (IF currentOpenedModal # NoModal
            THEN <<Call("closeAllModals", <<>>)>> ELSE <<>>)
        \o <<Call("emit", EmitCall(payload, storeModal))>>

\* Variant: with settings open on a small layout the press always closes.
FixedSettingsOnPress_AlwaysCloses ==
    IF small /\ currentOpenedModal # NoModal /\ currentOpenedModal = "SETTINGS"
    THEN <<Call("closeAllModals", <<>>)>>
    ELSE <<Call("replaceModal", "SETTINGS")>>

\* onPress of the fixed settings button: the store calls it makes
FixedSettingsOnPress ==
    IF small /\ currentOpenedModal # NoModal /\ currentOpenedModal = "SETTINGS"
    THEN IF Len(columnIds) = 0
         THEN <<Call("closeAllModals", <<>>)>>
         ELSE <<>>
    ELSE <<Call("replaceModal", "SETTINGS")>>

\* onPress of the settings item in the list footer
FooterSettingsOnPress ==
    IF small /\ currentOpenedModal # NoModal /\ currentOpenedModal = "SETTINGS"
    THEN IF Len(columnIds) = 0
         THEN <<Call("closeAllModals", <<>>)>>
         ELSE <<>>
    ELSE <<Call("replaceModal", "SETTINGS")>>

\* the store's current modal after a sequence of calls
ModalAfter(cs) ==
    IF \E i \in DOMAIN cs : cs[i].op = "replaceModal"
    THEN replaceModal((CHOOSE c \in Elems(cs) : c.op = "replaceModal").arg)
    ELSE IF \E i \in DOMAIN cs : cs[i].op = "closeAllModals"
    THEN closeAllModals
    ELSE currentOpenedModal

\* Variant: a timestamp of 0 is treated like any other.
ScrollToFocusEffect_NoZeroCheck(focused, clickedAt) ==
    IF ~(flatListRef # Null /\ focused # Null) THEN <<>>
    ELSE IF now - clickedAt < DebounceMs THEN <<>>
    ELSE <<Call("scrollToItem", [animated |-> TRUE, item |-> focused,
                                 viewPosition |-> ViewPositionCenter])>>

\* Variant: the debounce window includes its end.
ScrollToFocusEffect_Inclusive(focused, clickedAt) ==
    IF ~(flatListRef # Null /\ focused # Null) THEN <<>>
    ELSE IF clickedAt # 0 /\ now - clickedAt <= DebounceMs THEN <<>>
    ELSE <<Call("scrollToItem", [animated |-> TRUE, item |-> focused,
                                 viewPosition |-> ViewPositionCenter])>>

\* The useLayoutEffect body, run when focusedColumnId or focusedColumnIndex
\* changed: the calls it makes on the list.
ScrollToFocusEffect(focused, clickedAt) ==
    IF ~(flatListRef # Null /\ focused # Null) THEN <<>>
    ELSE IF clickedAt # 0 /\ now - clickedAt < DebounceMs THEN <<>>
    ELSE <<Call("scrollToItem", [animated |-> TRUE, item |-> focused,
                                 viewPosition |-> ViewPositionCenter])>>

\* A press on the fixed settings button.
FixedSettingsPress ==
    /\ showFixedSettingsButton
    /\ calls' = FixedSettingsOnPress
    /\ currentOpenedModal' = ModalAfter(FixedSettingsOnPress)
    /\ lastOp' = "fixedSettingsPress"
    /\ UNCHANGED <<columnVars, layoutVars, columnIds, lookupFault,
                   focusedColumnId, sidebarLastClickedAtRef, now>>

\* A press on the settings item of the list footer.
FooterSettingsPress ==
    /\ ~showFixedSettingsButton
    /\ calls' = FooterSettingsOnPress
    /\ currentOpenedModal' = ModalAfter(FooterSettingsOnPress)
    /\ lastOp' = "footerSettingsPress"
    /\ UNCHANGED <<columnVars, layoutVars, columnIds, lookupFault,
                   focusedColumnId, sidebarLastClickedAtRef, now>>

\* A press on "add column": the list header shown while there are no columns,
\* or the fixed button of the large layouts.
AddColumnPress ==
    /\ \/ (Len(columnIds) = 0 /\ ~large)
       \/ (~small /\ large /\ \E shouldRenderFAB \in BOOLEAN : ~shouldRenderFAB)
    /\ calls' = <<Call("replaceModal", "ADD_COLUMN")>>
    /\ currentOpenedModal' = replaceModal("ADD_COLUMN")
    /\ lastOp' = "addColumnPress"
    /\ UNCHANGED <<columnVars, layoutVars, columnIds, lookupFault,
                   focusedColumnId, sidebarLastClickedAtRef, now>>

\* A press on the sidebar item of a column.
ItemPress(columnId) ==
    /\ columnId \in Elems(columnIds)
    /\ renderItem(columnId).rendered
    /\ LET cs == ItemOnPressCalls(columnId)
           emitted == (CHOOSE c \in Elems(cs) : c.op = "emit").arg
       IN  /\ sidebarLastClickedAtRef' = now
           /\ currentOpenedModal' = ModalAfter(cs)
           /\ EmitFocusOnColumn(emitted)
           /\ calls' = cs
    /\ lastOp' = "itemPress"
    /\ UNCHANGED <<layoutVars, columnIds, lookupFault, focusedColumnId, now>>

\* The focus context reports another focused column (or none).
FocusColumn(columnId) ==
    /\ columnId \in Elems(columnIds) \cup {Null}
    /\ columnId # focusedColumnId
    /\ focusedColumnId' = columnId
    /\ calls' = ScrollToFocusEffect(columnId, sidebarLastClickedAtRef)
    /\ lastOp' = "focusChange"
    /\ UNCHANGED <<columnVars, layoutVars, storeVars, sidebarLastClickedAtRef,
                   now>>

\* The store appends a column.
AddColumn(columnId) ==
    /\ columnId \in Ids \ Elems(columnIds)
    /\ \A i \in DOMAIN columnIds :
          \E j, k \in DOMAIN AllNames :
              AllNames[j] = columnIds[i] /\ AllNames[k] = columnId /\ j < k
    /\ columnIds' = Append(columnIds, columnId)
    /\ lastOp' = "env"
    /\ calls' = <<>>
    /\ UNCHANGED <<columnVars, layoutVars, currentOpenedModal, lookupFault,
                   focusedColumnId, sidebarLastClickedAtRef, now>>

Remove(seq, i) == [j \in 1..(Len(seq) - 1) |-> IF j < i THEN seq[j] ELSE seq[j + 1]]

\* The store removes a column.  If it was the focused one the focus context
\* picks another column or none; if the focused column's index changed the
\* layout effect runs.
RemoveColumn(i, newFocus) ==
    /\ i \in DOMAIN columnIds
    /\ LET rest == Remove(columnIds, i) IN
        /\ columnIds' = rest
        /\ IF focusedColumnId = columnIds[i]
           THEN newFocus \in Elems(rest) \cup {Null}
           ELSE newFocus = focusedColumnId
        /\ focusedColumnId' = newFocus
        /\ IF newFocus # focusedColumnId
              \/ IndexOf(rest, newFocus) # IndexOf(columnIds, focusedColumnId)
           THEN /\ lastOp' = "focusChange"
                /\ calls' = ScrollToFocusEffect(newFocus, sidebarLastClickedAtRef)
           ELSE /\ lastOp' = "env"
                /\ calls' = <<>>
    /\ lookupFault' = [lookupFault EXCEPT ![columnIds[i]] = "none"]
    /\ UNCHANGED <<columnVars, layoutVars, currentOpenedModal,
                   sidebarLastClickedAtRef, now>>

\* The lookup of a listed column starts or stops resolving.
LookupChange(columnId, part) ==
    /\ columnId \in Elems(columnIds)
    /\ part \in LookupParts \cup {"none"}
    /\ part # lookupFault[columnId]
    /\ LET next == [lookupFault EXCEPT ![columnId] = part] IN
        /\ Cardinality({c \in Ids : next[c] # "none"}) <= MaxFaults
        /\ lookupFault' = next
    /\ lastOp' = "env"
    /\ calls' = <<>>
    /\ UNCHANGED <<columnVars, layoutVars, columnIds, currentOpenedModal,
                   focusedColumnId, sidebarLastClickedAtRef, now>>

\* The list reports that it could not scroll to an index.
ScrollToIndexFailed ==
    /\ focusedColumnId # Null
    /\ calls' = <<Call("console.error", <<>>), Call("bugsnag.notify", "ScrollToIndexFailed")>>
    /\ lastOp' = "scrollToIndexFailed"
    /\ UNCHANGED <<columnVars, layoutVars, storeVars, focusedColumnId,
                   sidebarLastClickedAtRef, now>>

Init ==
    /\ mounted = {}
    /\ opacity = [c \in Ids |-> 0]
    /\ timers = {}
    /\ destroyedViewWrites = FALSE
    /\ highlightedAt = [c \in Ids |-> 0]
    /\ horizontal \in BOOLEAN
    /\ sizename \in Sizenames
    /\ appViewMode \in AppViewModes
    /\ columnIds = <<>>
    /\ currentOpenedModal = NoModal
    /\ lookupFault = [c \in Ids |-> "none"]
    /\ focusedColumnId = Null
    /\ sidebarLastClickedAtRef = 0
    /\ now = TickMs
    /\ lastOp = "init"
    /\ calls = <<>>

\* one layout: a vertical sidebar on a medium, multi-column layout
InitColumn ==
    /\ Init
    /\ horizontal = FALSE
    /\ sizename = "2-medium"
    /\ appViewMode = "multi-column"

NextColumn ==
    \/ \E c \in ViewIds : Mount(c)
    \/ \E c \in ViewIds : Unmount(c)
    \/ \E c \in ViewIds \cup {ForeignId, EmptyId}, h \in BOOLEAN : Broadcast(c, h)
    \/ \E t \in timers : TimerFire(t)
    \/ Tick

SpecColumn == InitColumn /\ [][NextColumn]_vars

\* The press handlers of the Sidebar, with every lookup resolving.
NextSidebar ==
    \/ FixedSettingsPress
    \/ FooterSettingsPress
    \/ AddColumnPress
    \/ \E c \in Ids : ItemPress(c)
    \/ \E c \in Ids \cup {Null} : FocusColumn(c)
    \/ \E c \in Ids : AddColumn(c)
    \/ \E i \in 1..NumIds, f \in Ids \cup {Null} : RemoveColumn(i, f)

SpecSidebar == Init /\ [][NextSidebar]_vars

\* The sidebar items while lookups start and stop resolving.
NextLookup ==
    \/ \E c \in Ids : ItemPress(c)
    \/ \E c \in Ids : AddColumn(c)
    \/ \E i \in 1..NumIds, f \in Ids \cup {Null} : RemoveColumn(i, f)
    \/ \E c \in Ids, p \in LookupParts \cup {"none"} : LookupChange(c, p)

SpecLookup == Init /\ [][NextLookup]_vars

\* Scroll-to-focus and the click debounce, as time passes.
NextScroll ==
    \/ \E c \in Ids : ItemPress(c)
    \/ \E c \in Ids \cup {Null} : FocusColumn(c)
    \/ \E c \in Ids : AddColumn(c)
    \/ \E i \in 1..NumIds, f \in Ids \cup {Null} : RemoveColumn(i, f)
    \/ ScrollToIndexFailed
    \/ Tick

SpecScroll == Init /\ [][NextScroll]_vars

\* Every handler of the Sidebar, as time passes.
NextDebounce ==
    \/ FixedSettingsPress
    \/ FooterSettingsPress
    \/ AddColumnPress
    \/ \E c \in Ids : ItemPress(c)
    \/ \E c \in Ids \cup {Null} : FocusColumn(c)
    \/ \E c \in Ids : AddColumn(c)
    \/ \E i \in 1..NumIds, f \in Ids \cup {Null} : RemoveColumn(i, f)
    \/ ScrollToIndexFailed
    \/ Tick

SpecDebounce == Init /\ [][NextDebounce]_vars

\* a vertical, multi-column sidebar on any layout size, listing the columns
\* that can have a Column instance
InitPress ==
    /\ mounted = {}
    /\ opacity = [c \in Ids |-> 0]
    /\ timers = {}
    /\ destroyedViewWrites = FALSE
    /\ highlightedAt = [c \in Ids |-> 0]
    /\ horizontal = FALSE
    /\ sizename \in Sizenames
    /\ appViewMode = "multi-column"
    /\ columnIds = [i \in 1..MaxMounted |-> AllNames[i]]
    /\ currentOpenedModal = NoModal
    /\ lookupFault = [c \in Ids |-> "none"]
    /\ focusedColumnId = Null
    /\ sidebarLastClickedAtRef = 0
    /\ now = TickMs
    /\ lastOp = "init"
    /\ calls = <<>>

\* Item presses reaching the mounted Columns, among highlight events from
\* elsewhere and the reverts they schedule.
NextPress ==
    \/ \E c \in ViewIds : Mount(c)
    \/ \E c \in ViewIds : ItemPress(c)
    \/ \E c \in ViewIds : Broadcast(c, TRUE)
    \/ \E t \in timers : TimerFire(t)
    \/ Tick

SpecPress == InitPress /\ [][NextPress]_vars

\* ----------------------------------------------------------------- claims

\* the names of the calls a handler made, in order
Ops(cs) == [i \in DOMAIN cs |-> cs[i].op]

\* a FOCUS_ON_COLUMN emit is what the most recent handler did
JustEmitted == \E i \in DOMAIN calls : calls[i].op = "emit"

\* its payload
Emitted == (CHOOSE c \in Elems(calls) : c.op = "emit").arg

Matches(c) == Emitted.columnId # EmptyId /\ Emitted.columnId = c

LiveTimers(c) == {t \in timers : t.columnId = c /\ t.ref = View}

\* C1: right after a FOCUS_ON_COLUMN event whose columnId is empty or is not a
\* mounted Column's own id, that Column is idle (opacity 0), whatever the
\* event's highlight flag and whatever the Column's state before.
C1_NonMatchingIdle ==
    JustEmitted =>
        \A c \in mounted :
            (Emitted.columnId = EmptyId \/ Emitted.columnId # c)
                => opacity[c] = 0

\* a highlight event for another id has just reached a Column whose own
\* highlight was still pending its revert
C1_Witness ==
    /\ JustEmitted
    /\ Emitted.highlight
    /\ \E c \in mounted :
          /\ Emitted.columnId # c
          /\ LiveTimers(c) # {}
          /\ opacity[c] = 0

\* C2: a mounted Column that receives its own id with highlight: true is
\* highlighted right after the handler, with its revert due 1000ms later; and
\* a Column is highlighted only until 1000ms after the last such event: up to
\* then the revert that event scheduled is pending, and the clock does not
\* pass it.
C2_HighlightThenRevert ==
    \A c \in mounted :
        /\ (JustEmitted /\ Matches(c) /\ Emitted.highlight) =>
              /\ opacity[c] = 1
              /\ highlightedAt[c] = now
        /\ opacity[c] = 1 =>
              /\ now <= highlightedAt[c] + HighlightMs
              /\ \E t \in LiveTimers(c) : t.at = highlightedAt[c] + HighlightMs

\* the revert of a highlight has just run, 1000ms after the event, and the
\* Column is idle again
C2_Witness ==
    /\ lastOp = "timeout"
    /\ \E c \in mounted :
          /\ highlightedAt[c] > 0
          /\ now = highlightedAt[c] + HighlightMs
          /\ opacity[c] = 0
          /\ LiveTimers(c) = {}

\* C3: at most one mounted Column is highlighted.
C3_AtMostOneHighlighted ==
    Cardinality({c \in mounted : opacity[c] = 1}) <= 1

\* the highlight has just moved from one mounted Column to another
C3_Witness ==
    /\ JustEmitted
    /\ \E c, d \in mounted :
          /\ c # d
          /\ opacity[c] = 1
          /\ Matches(c)
          /\ opacity[d] = 0
          /\ LiveTimers(d) # {}

\* the most recent handler was a press on a settings control
SettingsPressed(op) == op \in {"fixedSettingsPress", "footerSettingsPress"}

\* C4: a press on either settings control does exactly one of three things,
\* decided by (small, currentOpenedModal, columnIds.length) at the press:
\* small with SETTINGS open and no columns: closeAllModals() alone; small with
\* SETTINGS open and columns: nothing; otherwise replaceModal SETTINGS alone.
C4_SettingsPressOutcome ==
    [][SettingsPressed(lastOp') =>
          LET settingsOpen == sizename = "1-small" /\ currentOpenedModal = "SETTINGS"
          IN  /\ (settingsOpen /\ Len(columnIds) = 0) =>
                    /\ Ops(calls') = <<"closeAllModals">>
                    /\ currentOpenedModal' = NoModal
              /\ (settingsOpen /\ Len(columnIds) >= 1) =>
                    /\ Ops(calls') = <<>>
                    /\ currentOpenedModal' = currentOpenedModal
              /\ ~settingsOpen =>
                    /\ Ops(calls') = <<"replaceModal">>
                    /\ calls'[1].arg = "SETTINGS"
                    /\ currentOpenedModal' = "SETTINGS"
      ]_vars

\* a settings press that did nothing: small, SETTINGS open, two columns
C4_Witness ==
    /\ SettingsPressed(lastOp)
    /\ Ops(calls) = <<>>
    /\ sizename = "1-small"
    /\ currentOpenedModal = "SETTINGS"
    /\ Len(columnIds) = 2

\* a sidebar item was pressed less than 1000ms ago
RecentlyPressed ==
    sidebarLastClickedAtRef # 0 /\ now - sidebarLastClickedAtRef < 1000

ScrolledToFocus ==
    /\ Ops(calls) = <<"scrollToItem">>
    /\ calls[1].arg = [animated |-> TRUE, item |-> focusedColumnId,
                       viewPosition |-> ViewPositionCenter]

\* C5 as stated: each time the focused column id or index changes, the list
\* is scrolled to the focused item unless a sidebar item was pressed less than
\* 1000ms earlier, and then it is not.
C5_AsStated ==
    lastOp = "focusChange" =>
        IF RecentlyPressed THEN Ops(calls) = <<>> ELSE ScrolledToFocus

\* C5: each time the focused column id or index changes, the list is scrolled
\* to the focused item (animated, centred) if there is a focused column and
\* no sidebar item was pressed less than 1000ms earlier; otherwise nothing is
\* called on the list.
C5_ScrollToFocus ==
    lastOp = "focusChange" =>
        IF RecentlyPressed \/ focusedColumnId = Null
        THEN Ops(calls) = <<>>
        ELSE ScrolledToFocus

\* the focus moved to a column 500ms after a press, and the list stayed put
C5_Witness ==
    /\ lastOp = "focusChange"
    /\ focusedColumnId # Null
    /\ sidebarLastClickedAtRef # 0
    /\ now > sidebarLastClickedAtRef
    /\ now - sidebarLastClickedAtRef < 1000
    /\ Ops(calls) = <<>>

HighlightedItems ==
    {c \in Elems(columnIds) : renderItem(c).rendered /\ renderItem(c).highlight}

\* C6: a rendered sidebar item is highlighted iff its id is focusedColumnId
\* and ((appViewMode is 'single-column' or sizename is '1-small') and no modal
\* is open); so at most one item is highlighted, and none while a modal is.
C6_ItemHighlight ==
    /\ \A c \in Elems(columnIds) :
          renderItem(c).rendered =>
              (renderItem(c).highlight <=>
                  /\ c = focusedColumnId
                  /\ (appViewMode = "single-column" \/ sizename = "1-small")
                  /\ currentOpenedModal = NoModal)
    /\ Cardinality(HighlightedItems) <= 1
    /\ currentOpenedModal # NoModal => HighlightedItems = {}

\* one of several items is highlighted on a layout that is not small
C6_Witness ==
    /\ Len(columnIds) >= 2
    /\ Cardinality(HighlightedItems) = 1
    /\ sizename # "1-small"

\* C7: showFixedSettingsButton is true iff the sidebar is not horizontal or
\* there are at least 4 columns: horizontal with 3 columns shows the footer
\* item, horizontal with 4 the fixed button; the control that can be pressed
\* is the one this decides.
C7_FixedSettingsButton ==
    /\ showFixedSettingsButton <=> (~horizontal \/ Len(columnIds) >= 4)
    /\ (horizontal /\ Len(columnIds) = 3) => ~showFixedSettingsButton
    /\ (horizontal /\ Len(columnIds) = 4) => showFixedSettingsButton
    /\ lastOp = "fixedSettingsPress" => (~horizontal \/ Len(columnIds) >= 4)
    /\ lastOp = "footerSettingsPress" => (horizontal /\ Len(columnIds) < 4)

\* the fixed button was pressed in a horizontal sidebar with 4 columns
C7_Witness ==
    /\ horizontal
    /\ Len(columnIds) = 4
    /\ lastOp = "fixedSettingsPress"

\* C8: a press on a sidebar item makes, in this order, the debounce update,
\* closeAllModals() iff a modal was open, and one FOCUS_ON_COLUMN emit with
\* columnId the pressed column's, highlight = !small and
\* animated = (!small || no modal was open); the store holds no modal when
\* emit is called.
C8_ItemPressOrder ==
    [][lastOp' = "itemPress" =>
          LET open == currentOpenedModal # NoModal
              n == Len(calls')
          IN  /\ Ops(calls') = IF open
                               THEN <<"onSidebarItemPress", "closeAllModals", "emit">>
                               ELSE <<"onSidebarItemPress", "emit">>
              /\ sidebarLastClickedAtRef' = now
              /\ calls'[1].arg[1] \in Elems(columnIds)
              /\ calls'[n].arg.columnId = calls'[1].arg[1]
              /\ calls'[n].arg.highlight = (sizename # "1-small")
              /\ calls'[n].arg.animated = (sizename # "1-small" \/ ~open)
              /\ calls'[n].arg.storeModal = NoModal
              /\ currentOpenedModal' = NoModal
      ]_vars

\* an item was pressed on a small layout while a modal was open
C8_Witness ==
    /\ lastOp = "itemPress"
    /\ Ops(calls) = <<"onSidebarItemPress", "closeAllModals", "emit">>
    /\ sizename = "1-small"
    /\ ~calls[3].arg.animated
    /\ ~calls[3].arg.highlight
    /\ sidebarLastClickedAtRef = now

Unresolved(c) ==
    \/ ~useColumn(c).column
    \/ useColumn(c).columnIndex < 0
    \/ ~useColumn(c).headerDetails

\* C9: a listed column whose lookup does not resolve (no column, index < 0 or
\* no header details) has no rendered item, and the column of every item
\* press (with its closeAllModals and emit) is one whose lookup resolves.
C9_UnresolvedRendersNothing ==
    /\ \A c \in Elems(columnIds) : Unresolved(c) => renderItem(c) = NullItem
    /\ lastOp = "itemPress" => ~Unresolved(calls[1].arg[1])

\* a listed column resolves to a negative index and has no item, while
\* another item has just been pressed
C9_Witness ==
    /\ lastOp = "itemPress"
    /\ \E c \in Elems(columnIds) :
          /\ useColumn(c).column
          /\ useColumn(c).headerDetails
          /\ useColumn(c).columnIndex < 0
          /\ renderItem(c) = NullItem

\* C10: no setNativeProps call ever reaches the view of an unmounted Column,
\* neither from a revert callback that runs after the unmount nor from a later
\* FOCUS_ON_COLUMN event.
C10_NoWriteToDestroyedView == ~destroyedViewWrites

\* a revert callback has just run for a Column unmounted in the meantime
C10_Witness ==
    /\ lastOp = "timeout"
    /\ calls[1].arg = Null
    /\ ~destroyedViewWrites

\* C11: the click-debounce timestamp is 0 after mount and only a press on a
\* sidebar column item changes it: settings presses, add-column presses,
\* focus changes with their scroll-to-focus runs, scroll failures, list
\* changes and the passing of time leave it as it is; and while it is 0 the
\* debounce suppresses nothing: a change of focus to a column scrolls to it.
C11_DebounceTimestamp ==
    /\ sidebarLastClickedAtRef = 0
    /\ [][sidebarLastClickedAtRef' # sidebarLastClickedAtRef
              => (lastOp' = "itemPress" /\ sidebarLastClickedAtRef' = now)]_vars
    /\ []((lastOp = "focusChange" /\ sidebarLastClickedAtRef = 0
              /\ focusedColumnId # Null) => ScrolledToFocus)

\* with a modal opened by a settings press and no item ever pressed, the
\* focus has just moved to a column less than 1000ms after time 0, and the
\* list was scrolled
C11_Witness ==
    /\ lastOp = "focusChange"
    /\ sidebarLastClickedAtRef = 0
    /\ now < 1000
    /\ currentOpenedModal = "SETTINGS"
    /\ focusedColumnId # Null
    /\ ScrolledToFocus

\* the column of the item press the most recent handler was
Pressed(cs) == cs[1].arg[1]

\* C12: once an item press for column c has reached every mounted Column:
\* every Column with another id is idle; on a layout that is not '1-small'
\* the Column with id c is highlighted; on '1-small' no Column went from idle
\* to highlighted and the Column with id c is as it was before the press.
C12_PressEndToEnd ==
    [][lastOp' = "itemPress" =>
          LET c == Pressed(calls') IN
          /\ mounted' = mounted
          /\ \A d \in mounted : d # c => opacity'[d] = 0
          /\ (sizename # "1-small" /\ c \in mounted) => opacity'[c] = 1
          /\ sizename = "1-small" =>
                /\ \A d \in mounted : opacity[d] = 0 => opacity'[d] = 0
                /\ c \in mounted => opacity'[c] = opacity[c]
      ]_vars

\* on a small layout the item of a highlighted Column has just been pressed,
\* next to another mounted Column: the first is still highlighted
C12_Witness ==
    /\ lastOp = "itemPress"
    /\ sizename = "1-small"
    /\ Pressed(calls) \in mounted
    /\ opacity[Pressed(calls)] = 1
    /\ \E d \in mounted : d # Pressed(calls) /\ opacity[d] = 0

====
